---- MODULE Spec2Model ----
(***************************************************************************)
(* State-machine model of the RomM client (src/RomM/api.py, status.py,     *)
(* models.py): the shared Status object, the catalog fetches and the       *)
(* queue-draining download_rom, each modelled statement by statement so    *)
(* that a consumer thread can observe (and set the abort flag in) every    *)
(* intermediate state.  Program positions are named after the source line  *)
(* of api.py that is about to execute ("dl558" = download_rom, line 558).  *)
(***************************************************************************)
EXTENDS Integers, Sequences, FiniteSets, TLC

\* ------------------------------------------------------------------ bounds
MaxChunks == 2
MaxOps == 2
MaxTime == 3

\* ------------------------------------------------------- program constants
chunk_size == 1024

\* token_data.get("expires_in", 1800)
default_expires_in == 1800

Min(a, b) == IF a < b THEN a ELSE b

\* ------------------------------------------------------------- data model
\* models.py Rom, restricted to the fields download_rom reads.  A file name
\* is a sequence of path segments, a segment a sequence of characters.
None == [name |-> "None", fs_name |-> << >>, multi |-> FALSE, fs_size_bytes |-> 0]

Titles ==
    { [name |-> "a", fs_name |-> << <<"a", ":">> >>, multi |-> TRUE, fs_size_bytes |-> 512],
      [name |-> "b", fs_name |-> << <<"b">> >>, multi |-> FALSE, fs_size_bytes |-> 1536] }

\* zipfile.ZipInfo entries an archive may hold (filename, file_size).
EntryList ==
    << [filename |-> << <<"x">> >>, file_size |-> 1536],
       [filename |-> << <<"d">>, <<"y", "?">> >>, file_size |-> 0] >>

\* An archive with a directory-only entry ("d/": the name ends with the
\* separator, a trailing empty segment) ahead of a file inside it.
DirEntryList ==
    << [filename |-> << <<"d">>, << >> >>, file_size |-> 0],
       [filename |-> << <<"d">>, <<"y", "?">> >>, file_size |-> 0] >>

\* An archive with two names that differ in a replaced character only.
ClashEntryList ==
    << [filename |-> << <<"d">>, <<"y", "*">> >>, file_size |-> 512],
       [filename |-> << <<"d">>, <<"y", "?">> >>, file_size |-> 0] >>

\* An archive with a rooted name ("/e"), a rooted name that climbs ("/../w")
\* and a relative name that climbs ("../x").
SlipEntryList ==
    << [filename |-> << << >>, <<"e">> >>, file_size |-> 0],
       [filename |-> << << >>, <<".", ".">>, <<"w">> >>, file_size |-> 0],
       [filename |-> << <<".", ".">>, <<"x">> >>, file_size |-> 512] >>

Prefixes(s) == { SubSeq(s, 1, n) : n \in 0..Len(s) }

\* Archives the server can deliver for a multi-file title.
Archives == Prefixes(EntryList) \cup Prefixes(DirEntryList) \cup {ClashEntryList}

EntryPool == UNION { { z[k] : k \in 1..Len(z) } : z \in Archives \cup {SlipEntryList} }

NameRank(n) == CASE n = "a" -> 1 [] n = "b" -> 2 [] OTHER -> 0

\* Lengths (bytes) of the body the server can stream for a title.
StreamLens ==
    {0} \cup { k * chunk_size - (chunk_size \div 2) : k \in 1..MaxChunks }

\* --------------------------------------------------------- pure functions
\* line 75: the character class [\\/*?:"<>|\t\n\r\b]; the backspace, which has
\* no escape in a TLA+ string, is the character "BS"
HostileChars ==
    {"\\", "/", "*", "?", ":", "\"", "<", ">", "|", "\t", "\n", "\r", "BS"}

SanitizeSegment(part) ==
    [k \in 1..Len(part) |-> IF part[k] \in HostileChars THEN "_" ELSE part[k]]

\* line 71: os.path.normpath drops empty and "." parts and lets ".." cancel
\* the part before it; a ".." with nothing to cancel is kept in a relative
\* name and dropped in a rooted one (a name with a leading separator, i.e. an
\* empty first part).  The root itself, an empty part after the split, is
\* lost in os.path.join (line 78).
RECURSIVE NormPath(_, _, _)
NormPath(parts, acc, rooted) ==
    IF parts = << >> THEN acc
    ELSE LET p == Head(parts) rest == Tail(parts) IN
         IF p = << >> \/ p = <<".">> THEN NormPath(rest, acc, rooted)
         ELSE IF p = <<".", ".">> /\ acc # << >> /\ acc[Len(acc)] # <<".", ".">>
              THEN NormPath(rest, SubSeq(acc, 1, Len(acc) - 1), rooted)
              ELSE IF p = <<".", ".">> /\ acc = << >> /\ rooted
              THEN NormPath(rest, acc, rooted)
              ELSE NormPath(rest, Append(acc, p), rooted)

_sanitize_filename(filename) ==
    LET path_parts == NormPath(filename, << >>,
                               filename # << >> /\ Head(filename) = << >>) IN
    [k \in 1..Len(path_parts) |-> SanitizeSegment(path_parts[k])]

DirName(path) == IF path = << >> THEN << >> ELSE SubSeq(path, 1, Len(path) - 1)

\* Paths are relative to the platform's storage directory.
DestPath(rom) == _sanitize_filename(rom.fs_name)

EntryPath(rom, file) == DirName(DestPath(rom)) \o _sanitize_filename(file.filename)

\* download_save / download_state: the name and size of the save the consumer
\* asks for, and file_path = <storage>/saves/<sanitized name> (lines 882-887)
SaveName == << <<"s", ":">> >>

SaveSize == 64

SavePath == << <<"saves">> >> \o _sanitize_filename(SaveName)

\* lines 1069-1074
StatePath == << <<"states">> >> \o _sanitize_filename(SaveName)

SyncPath(o) == IF o = "download_state" THEN StatePath ELSE SavePath

\* the directories above a path
Parents(path) == { SubSeq(path, 1, n) : n \in 1..(Len(path) - 1) }

FilePaths ==
    { DestPath(r) : r \in Titles } \cup
    { EntryPath(r, e) : r \in Titles, e \in EntryPool } \cup {SavePath, StatePath}

AllPaths == FilePaths \cup UNION { Parents(p) : p \in FilePaths }

RECURSIVE InsertByName(_, _)
InsertByName(sorted, r) ==
    IF sorted = << >> THEN <<r>>
    ELSE IF NameRank(r.name) < NameRank(Head(sorted).name)
         THEN <<r>> \o sorted
         ELSE <<Head(sorted)>> \o InsertByName(Tail(sorted), r)

\* a drain that takes the queue as it was enqueued
SortByName_none(q) == q

RECURSIVE SortByName(_)
SortByName(q) ==
    IF q = << >> THEN << >>
    ELSE InsertByName(SortByName(SubSeq(q, 1, Len(q) - 1)), q[Len(q)])

RECURSIVE SumSizes(_)
SumSizes(z) == IF z = << >> THEN 0 ELSE Head(z).file_size + SumSizes(Tail(z))


\* ---------------------------------------------------------- catalog data
NoPlatform == [id |-> 0, slug |-> "", rom_count |-> 0]

NoCollection == [id |-> 0, name |-> "", rom_count |-> 0, virtual |-> FALSE]

NoMe == [username |-> "", avatar_path |-> ""]

\* Records the server can return (spec section 6).
PlatformItems ==
    << [id |-> 1, slug |-> "snes", rom_count |-> 3],
       [id |-> 2, slug |-> "GBA", rom_count |-> 1],
       [id |-> 3, slug |-> "n64", rom_count |-> 0],
       [id |-> 4, slug |-> "psx", rom_count |-> 2] >>

CollectionItems ==
    << [id |-> 1, name |-> "Favorites", rom_count |-> 2],
       [id |-> 2, name |-> "Old", rom_count |-> 0] >>

VirtualCollectionItems ==
    << [id |-> 9, name |-> "Action", rom_count |-> 4] >>

RomItems ==
    << [id |-> 1, platform_slug |-> "snes"],
       [id |-> 2, platform_slug |-> "GBA"] >>

MeItems == { [username |-> "u", avatar_path |-> ""],
             [username |-> "u", avatar_path |-> "u.png"] }

\* A JSON body is a flat list or an envelope object with an "items" list.
Bodies(s) == { [shape |-> sh, items |-> s] : sh \in {"list", "envelope"} }

Lower(s) == CASE s = "GBA" -> "gba" [] OTHER -> s

\* platform_maps (not under src/): the built-in allow-lists and folder map.
MUOS_SUPPORTED_PLATFORMS == {"snes", "n64"}

SPRUCEOS_SUPPORTED_PLATFORMS == {"snes", "gba"}

ES_FOLDER_MAP(slug) == CASE slug = "gba" -> "GBA-roms" [] OTHER -> slug

\* lines 46-48: access_token, refresh_token and token_expires_at start None
NoToken == "None"

NoExpiry == 0

\* API configurations (environment of API.__init__, lines 36-48).
Configs ==
    { [host |-> "http", device |-> "muos", _exclude_platforms |-> {},
       env_platforms |-> {}, roms_subfolders |-> {},
       _include_collections |-> {}, _exclude_collections |-> {},
       access_token |-> NoToken, refresh_token |-> NoToken,
       token_expires_at |-> NoExpiry],
      [host |-> "http", device |-> "generic", _exclude_platforms |-> {"gba"},
       env_platforms |-> {"n64"}, roms_subfolders |-> {"snes", "gba-roms"},
       _include_collections |-> {"Favorites"}, _exclude_collections |-> {"Favorites"},
       access_token |-> NoToken, refresh_token |-> NoToken,
       token_expires_at |-> NoExpiry],
      [host |-> "http", device |-> "spruceos", _exclude_platforms |-> {"snes"},
       env_platforms |-> {}, roms_subfolders |-> {},
       _include_collections |-> {}, _exclude_collections |-> {"Action"},
       access_token |-> NoToken, refresh_token |-> NoToken,
       token_expires_at |-> NoExpiry],
      [host |-> "ftp", device |-> "muos", _exclude_platforms |-> {},
       env_platforms |-> {}, roms_subfolders |-> {},
       _include_collections |-> {}, _exclude_collections |-> {},
       access_token |-> NoToken, refresh_token |-> NoToken,
       token_expires_at |-> NoExpiry],
      [host |-> "malformed", device |-> "muos", _exclude_platforms |-> {},
       env_platforms |-> {}, roms_subfolders |-> {},
       _include_collections |-> {}, _exclude_collections |-> {},
       access_token |-> NoToken, refresh_token |-> NoToken,
       token_expires_at |-> NoExpiry] }

\* Configurations with an operator-supplied custom mapping (platform_maps
\* _env_maps / _env_platforms) and with collection filters.
MappedConfigs ==
    { [host |-> "http", device |-> "muos", _exclude_platforms |-> {},
       env_platforms |-> {"gba"}, roms_subfolders |-> {},
       _include_collections |-> {"Old", "Action"}, _exclude_collections |-> {"Action"},
       access_token |-> NoToken, refresh_token |-> NoToken,
       token_expires_at |-> NoExpiry],
      [host |-> "http", device |-> "muos", _exclude_platforms |-> {"snes", "gba"},
       env_platforms |-> {"gba"}, roms_subfolders |-> {},
       _include_collections |-> {}, _exclude_collections |-> {"Favorites", "Action"},
       access_token |-> NoToken, refresh_token |-> NoToken,
       token_expires_at |-> NoExpiry],
      [host |-> "http", device |-> "spruceos", _exclude_platforms |-> {"gba"},
       env_platforms |-> {"psx"}, roms_subfolders |-> {},
       _include_collections |-> {}, _exclude_collections |-> {},
       access_token |-> NoToken, refresh_token |-> NoToken,
       token_expires_at |-> NoExpiry],
      [host |-> "http", device |-> "spruceos", _exclude_platforms |-> {"psx"},
       env_platforms |-> {"psx"}, roms_subfolders |-> {},
       _include_collections |-> {}, _exclude_collections |-> {},
       access_token |-> NoToken, refresh_token |-> NoToken,
       token_expires_at |-> NoExpiry],
      [host |-> "http", device |-> "generic", _exclude_platforms |-> {},
       env_platforms |-> {"psx"}, roms_subfolders |-> {"snes"},
       _include_collections |-> {}, _exclude_collections |-> {},
       access_token |-> NoToken, refresh_token |-> NoToken,
       token_expires_at |-> NoExpiry],
      [host |-> "http", device |-> "generic", _exclude_platforms |-> {"psx", "snes"},
       env_platforms |-> {"psx"}, roms_subfolders |-> {"snes"},
       _include_collections |-> {}, _exclude_collections |-> {},
       access_token |-> NoToken, refresh_token |-> NoToken,
       token_expires_at |-> NoExpiry] }

\* ------------------------------------------------------------------ state
VARIABLES
    status,   \* the Status singleton (status.py)
    api,      \* the API object: host and configuration (api.py, lines 32-53)
    icons,    \* slugs whose icon is cached in the resources directory
    fs,       \* destination file system: path -> size in bytes, -1 = absent
    op,       \* the operation the background thread runs
    pc,       \* its position
    loc,      \* its local variables
    hist,     \* history of the current invocation
    ops,      \* number of operations started so far
    clock,    \* time.time(), in the unit of expires_in
    library   \* the archives the server holds for a multi-file title

vars == <<status, api, icons, fs, op, pc, loc, hist, ops, clock, library>>

Idle == {"idle", "returned", "raised"}

Absent == 0 - 1

\* fs value of a path that is a directory
IsDir == 0 - 2

InitStatus ==
    [ valid_host |-> TRUE, valid_credentials |-> TRUE,
      me |-> NoMe,
      selected_platform |-> NoPlatform, selected_collection |-> NoCollection,
      selected_virtual_collection |-> NoCollection,
      platforms |-> << >>, collections |-> << >>, roms |-> << >>,
      saves |-> << >>, states |-> << >>,
      saves_ready |-> TRUE, states_ready |-> TRUE,
      platforms_ready |-> FALSE, collections_ready |-> FALSE,
      roms_ready |-> TRUE, me_ready |-> FALSE,
      download_rom_ready |-> TRUE, abort_download |-> TRUE,
      multi_selected_roms |-> << >>, download_queue |-> << >>,
      downloading_rom |-> None, downloading_rom_position |-> 0,
      total_downloaded_bytes |-> 0, downloaded_percent |-> <<0, 1>>,
      extracting_rom |-> FALSE, extracted_percent |-> <<0, 1>> ]

InitLoc ==
    [ q |-> << >>, i |-> 0, rom |-> None, left |-> 0,
      zip |-> << >>, zi |-> 0, eleft |-> 0, extracted_size |-> 0, total_size |-> 0,
      chunk |-> 0, r_vh |-> FALSE, r_vc |-> FALSE, r_ret |-> "returned",
      items |-> << >>, v_items |-> << >>, k |-> 0, result |-> << >>,
      f_list |-> "none", f_vh |-> FALSE, f_vc |-> FALSE, f_ret |-> "returned",
      auth |-> "none", body |-> "none", tok_ok |-> FALSE, ret |-> "None" ]

InitHist ==
    [ raised |-> 0, outcome |-> "none", reqs |-> 0,
      stale |-> FALSE, abortReq |-> FALSE, abortPhase |-> "none", abortPos |-> 0,
      seenPhase |-> "none", seenPos |-> 0, seenSize |-> Absent, seenLeft |-> 0,
      seenZi |-> 0,
      readPos |-> {}, done |-> {},
      sub |-> "none",
      log |-> << >>, basic |-> "none", bearer |-> "none", excAfter |-> FALSE,
      ev |-> FALSE, evTok |-> NoToken, evRef |-> NoToken, evExp |-> NoExpiry,
      evClock |-> 0, refresh |-> "none", grant |-> "none",
      before |-> << >>, entry |-> << >>,
      recv |-> << >>, file |-> << >>, pos |-> << >>, started |-> << >>, fin |-> 0,
      flagAtRead |-> FALSE, iconFailed |-> FALSE ]

\* The server of this specification holds the one archive EntryList; the
\* other archives are served in SpecTransfer and SpecSlip.
Init ==
    /\ status = InitStatus
    /\ api \in { c \in Configs : c.device = "muos" }
    /\ icons = {}
    /\ fs = [p \in AllPaths |-> Absent]
    /\ op = "none"
    /\ pc = "idle"
    /\ loc = InitLoc
    /\ hist = InitHist
    /\ ops = 0
    /\ clock = 1
    /\ library = {EntryList}

\* --------------------------------------------------------------- consumer
\* The consumer (UI) is not part of src/: these actions are its use of the
\* Status fields as the specification describes it.
ConsumerEnqueue ==
    /\ pc \in Idle
    /\ \E r \in Titles :
         /\ \A k \in 1..Len(status.download_queue) : status.download_queue[k] # r
         /\ status' = [status EXCEPT !.download_queue = Append(@, r),
                                     !.multi_selected_roms = Append(@, r)]
    /\ pc' = "idle" /\ op' = "none" /\ loc' = InitLoc /\ hist' = InitHist
    /\ UNCHANGED <<api, icons, fs, ops, clock, library>>

ConsumerClearAbort ==
    /\ pc \in Idle
    /\ status.abort_download
    /\ status' = [status EXCEPT !.abort_download = FALSE]
    /\ pc' = "idle" /\ op' = "none" /\ loc' = InitLoc /\ hist' = InitHist
    /\ UNCHANGED <<api, icons, fs, ops, clock, library>>

DownloadPhasePcs == {"dl553", "dl555", "dl558", "dl559", "dl563", "dl564", "dl565", "dl566", "dl567"}

ExtractPhasePcs == {"dl581", "dl585", "dl586", "dl594", "dl597", "dl600", "dl601", "dl602", "dl609"}

PhaseOf(p) ==
    IF p \in DownloadPhasePcs THEN "download"
    ELSE IF p \in ExtractPhasePcs THEN "extract" ELSE "other"

ConsumerAbort ==
    /\ op = "download_rom"
    /\ pc \notin Idle
    /\ ~status.abort_download
    /\ status' = [status EXCEPT !.abort_download = TRUE]
    /\ hist' = [hist EXCEPT !.abortReq = TRUE,
                            !.abortPhase = PhaseOf(pc),
                            !.abortPos = status.downloading_rom_position]
    /\ UNCHANGED <<api, icons, fs, op, pc, loc, ops, clock, library>>

StartDownloadRom ==
    /\ pc \in Idle
    /\ ops < MaxOps
    /\ ops' = ops + 1
    /\ op' = "download_rom"
    /\ pc' = "dl529"
    /\ status' = [status EXCEPT !.download_rom_ready = FALSE]
    /\ loc' = InitLoc
    /\ hist' = [InitHist EXCEPT !.stale = status.abort_download,
                                !.entry = status.download_queue]
    /\ UNCHANGED <<api, icons, fs, clock, library>>

\* ------------------------------------------- API._reset_download_status
HostErrorArgs == [valid_host |-> FALSE, valid_credentials |-> FALSE]

ForbiddenArgs == [valid_host |-> TRUE, valid_credentials |-> FALSE]

URLErrorArgs == [valid_host |-> TRUE, valid_credentials |-> FALSE]

\* an abort branch that calls _reset_download_status() with its defaults
AbortArgs_defaults == [valid_host |-> FALSE, valid_credentials |-> FALSE]

AbortArgs == [valid_host |-> TRUE, valid_credentials |-> TRUE]

EndArgs == [valid_host |-> TRUE, valid_credentials |-> TRUE]

CallReset(args, ret) ==
    /\ loc' = [loc EXCEPT !.r_vh = args.valid_host,
                          !.r_vc = args.valid_credentials,
                          !.r_ret = ret]
    /\ pc' = "rs517"

ResetPcs == {"rs517", "rs518", "rs519", "rs520", "rs521", "rs522", "rs523", "rs524", "rs525", "rs526"}

ResetNext(p) ==
    CASE p = "rs517" -> "rs518" [] p = "rs518" -> "rs519" [] p = "rs519" -> "rs520"
      [] p = "rs520" -> "rs521" [] p = "rs521" -> "rs522" [] p = "rs522" -> "rs523"
      [] p = "rs523" -> "rs524" [] p = "rs524" -> "rs525" [] p = "rs525" -> "rs526"
      [] OTHER -> loc.r_ret

ResetWrite(p, s) ==
    CASE p = "rs517" -> [s EXCEPT !.total_downloaded_bytes = 0]
      [] p = "rs518" -> [s EXCEPT !.downloaded_percent = <<0, 1>>]
      [] p = "rs519" -> [s EXCEPT !.valid_host = loc.r_vh]
      [] p = "rs520" -> [s EXCEPT !.valid_credentials = loc.r_vc]
      [] p = "rs521" -> [s EXCEPT !.downloading_rom = None]
      [] p = "rs522" -> [s EXCEPT !.extracting_rom = FALSE]
      [] p = "rs523" -> [s EXCEPT !.multi_selected_roms = << >>]
      [] p = "rs524" -> [s EXCEPT !.download_queue = << >>]
      [] p = "rs525" -> [s EXCEPT !.download_rom_ready = TRUE]
      [] OTHER -> [s EXCEPT !.abort_download = TRUE]

_reset_download_status ==
    /\ pc \in ResetPcs
    /\ status' = ResetWrite(pc, status)
    /\ pc' = ResetNext(pc)
    /\ hist' = IF pc = "rs525" THEN [hist EXCEPT !.raised = @ + 1] ELSE hist
    /\ UNCHANGED <<api, icons, fs, op, loc, ops, clock, library>>

\* ------------------------------------------------------ API.download_rom
Step(from, to) == pc = from /\ pc' = to

Write(field, value) == status' = [status EXCEPT ![field] = value]

CurrentEntry == loc.zip[loc.zi + 1]

\* line 529: the queue is sorted in place by title name
DL_Sort ==
    /\ op = "download_rom" /\ Step("dl529", "dl530")
    /\ Write("download_queue", SortByName(status.download_queue))
    /\ loc' = [loc EXCEPT !.q = SortByName(status.download_queue), !.i = 0]
    /\ UNCHANGED <<api, icons, fs, op, hist, ops, clock, library>>

\* line 530 (loop head) and line 623 (end of the drain)
DL_For ==
    /\ pc = "dl530"
    /\ IF loc.i < Len(loc.q)
       THEN /\ pc' = "dl531"
            /\ loc' = [loc EXCEPT !.rom = loc.q[loc.i + 1]]
            /\ hist' = hist
       ELSE /\ CallReset(EndArgs, "returned")
            /\ hist' = [hist EXCEPT !.outcome = "ok"]
    /\ UNCHANGED <<status, api, icons, fs, op, ops, clock, library>>

\* lines 531-532
DL_SetCursor ==
    /\ \/ /\ Step("dl531", "dl532") /\ Write("downloading_rom", loc.rom)
          /\ hist' = hist
       \/ /\ Step("dl532", "dl542") /\ Write("downloading_rom_position", loc.i + 1)
          /\ hist' = [hist EXCEPT !.pos = Append(@, loc.i + 1)]
    /\ UNCHANGED <<api, icons, fs, op, loc, ops, clock, library>>

\* lines 540-545: Request(url) raises ValueError for a malformed URL
DL_Request ==
    /\ pc = "dl542"
    /\ IF api.host = "malformed"
       THEN /\ CallReset(HostErrorArgs, "returned")
            /\ hist' = [hist EXCEPT !.outcome = "value_error"]
       ELSE /\ pc' = "dl547" /\ UNCHANGED <<loc, hist>>
    /\ UNCHANGED <<status, api, icons, fs, op, ops, clock, library>>

\* lines 547-549
DL_Scheme ==
    /\ pc = "dl547"
    /\ IF api.host # "http"
       THEN /\ CallReset(HostErrorArgs, "returned")
            /\ hist' = [hist EXCEPT !.outcome = "bad_scheme"]
       ELSE /\ pc' = "dl552" /\ UNCHANGED <<loc, hist>>
    /\ UNCHANGED <<status, api, icons, fs, op, ops, clock, library>>

\* a handler that goes on with the next pass of the loop instead of returning
FailureRet_continue == "dl530"

\* lines 616 and 621: `return` after the reset of a 403 or a URLError
FailureRet == "returned"

\* the titles requested so far, in the order of the requests
Started == Append(hist.started, loc.rom.name)

\* line 552 with its handlers, lines 613-621
DL_UrlOpen ==
    /\ pc = "dl552"
    /\ \/ \E n \in StreamLens :
            /\ pc' = "dl553"
            /\ loc' = [loc EXCEPT !.left = n]
            /\ hist' = [hist EXCEPT !.reqs = @ + 1, !.started = Started]
       \/ /\ CallReset(ForbiddenArgs, FailureRet)
          /\ hist' = [hist EXCEPT !.reqs = @ + 1, !.started = Started,
                                  !.outcome = "http403"]
       \/ /\ pc' = "raised"
          /\ loc' = loc
          /\ hist' = [hist EXCEPT !.reqs = @ + 1, !.started = Started,
                                  !.outcome = "http_other"]
       \/ /\ CallReset(URLErrorArgs, FailureRet)
          /\ hist' = [hist EXCEPT !.reqs = @ + 1, !.started = Started,
                                  !.outcome = "url_error"]
    /\ UNCHANGED <<status, api, icons, fs, op, ops, clock, library>>

\* line 553: open(dest_path, "wb") creates or truncates the destination
DL_OpenDest ==
    /\ Step("dl553", "dl555")
    /\ fs' = [fs EXCEPT ![DestPath(loc.rom)] = 0]
    /\ hist' = [hist EXCEPT !.recv = << >>, !.file = << >>]
    /\ UNCHANGED <<status, api, icons, op, loc, ops, clock, library>>

\* line 555
DL_ZeroBytes ==
    /\ Step("dl555", "dl558")
    /\ Write("total_downloaded_bytes", 0)
    /\ UNCHANGED <<api, icons, fs, op, loc, hist, ops, clock, library>>

AbortSeen == status.abort_download

\* an abort branch that returns without os.remove(dest_path)
AbortDownloadRet_noremove == "returned"

AbortDownloadRet == "dl575"

AbortExtractRet_noremove == "returned"

AbortExtractRet == "dl607"

\* lines 558, 573-574: the abort check that precedes every chunk read
DL_CheckAbort ==
    /\ pc = "dl558"
    /\ IF ~AbortSeen
       THEN pc' = "dl559" /\ UNCHANGED <<loc, hist>>
       ELSE /\ CallReset(AbortArgs, AbortDownloadRet)
            /\ hist' = [hist EXCEPT !.outcome = "abort_dl",
                                    !.seenPhase = "download",
                                    !.seenPos = loc.i + 1,
                                    !.seenSize = fs[DestPath(loc.rom)],
                                    !.seenLeft = loc.left]
    /\ UNCHANGED <<status, api, icons, fs, op, ops, clock, library>>

\* lines 559-562: response.read(chunk_size); an empty chunk ends the loop
DL_Read ==
    /\ pc = "dl559"
    /\ IF loc.left = 0
       THEN pc' = "dl578" /\ UNCHANGED <<loc, hist>>
       ELSE /\ pc' = "dl563"
            /\ loc' = [loc EXCEPT !.chunk = Min(chunk_size, loc.left),
                                  !.left = @ - Min(chunk_size, loc.left)]
            /\ hist' = [hist EXCEPT !.readPos = @ \cup {loc.i + 1},
                                    !.recv = Append(@, Min(chunk_size, loc.left))]
    /\ UNCHANGED <<status, api, icons, fs, op, ops, clock, library>>

\* a write that puts every chunk at the start of the file
Written_overwrite(size, chunk) == chunk

\* line 563: out_file.write(chunk) appends to what the file holds
Written(size, chunk) == size + chunk

\* line 563; hist.file lists the chunks in the file, by their number in the
\* order of arrival
DL_WriteChunk ==
    /\ Step("dl563", "dl564")
    /\ fs' = [fs EXCEPT ![DestPath(loc.rom)] = Written(@, loc.chunk)]
    /\ hist' = [hist EXCEPT !.file = Append(@, Len(hist.recv))]
    /\ UNCHANGED <<status, api, icons, op, loc, ops, clock, library>>

\* lines 564-572
DL_Progress ==
    /\ \/ Step("dl564", "dl565") /\ Write("valid_host", TRUE)
       \/ Step("dl565", "dl566") /\ Write("valid_credentials", TRUE)
       \/ Step("dl566", "dl567")
            /\ Write("total_downloaded_bytes", status.total_downloaded_bytes + loc.chunk)
       \/ Step("dl567", "dl558")
            /\ Write("downloaded_percent",
                     <<status.total_downloaded_bytes,
                       status.downloading_rom.fs_size_bytes + 1>>)
    /\ UNCHANGED <<api, icons, fs, op, loc, hist, ops, clock, library>>

\* lines 575 and 607: os.remove(dest_path), then return
DL_RemoveAndReturn ==
    /\ pc \in {"dl575", "dl607"}
    /\ pc' = "returned"
    /\ fs' = [fs EXCEPT ![DestPath(loc.rom)] = Absent]
    /\ UNCHANGED <<status, api, icons, op, loc, hist, ops, clock, library>>

\* line 578: a single-file title is finished, the loop moves on
DL_IsMulti ==
    /\ pc = "dl578"
    /\ IF loc.rom.multi
       THEN pc' = "dl579" /\ loc' = loc /\ hist' = hist
       ELSE /\ pc' = "dl530" /\ loc' = [loc EXCEPT !.i = @ + 1]
            /\ hist' = [hist EXCEPT !.fin = @ + 1]
    /\ UNCHANGED <<status, api, icons, fs, op, ops, clock, library>>

\* line 579
DL_SetExtracting ==
    /\ Step("dl579", "dl581")
    /\ Write("extracting_rom", TRUE)
    /\ UNCHANGED <<api, icons, fs, op, loc, hist, ops, clock, library>>

\* lines 581-584: the archive is opened and its total size computed; a
\* file that holds no bytes is no archive and zipfile raises BadZipFile
DL_OpenZip ==
    /\ pc = "dl581"
    /\ IF fs[DestPath(loc.rom)] = 0
       THEN /\ pc' = "raised" /\ loc' = loc
            /\ hist' = [hist EXCEPT !.outcome = "bad_zip"]
       ELSE /\ pc' = "dl585" /\ hist' = hist
            /\ \E z \in library :
                 loc' = [loc EXCEPT !.zip = z, !.zi = 0, !.total_size = SumSizes(z),
                                    !.extracted_size = 0]
    /\ UNCHANGED <<status, api, icons, fs, op, ops, clock, library>>

\* line 585 (loop head over the archive's entries)
DL_ForEntry ==
    /\ pc = "dl585"
    /\ pc' = IF loc.zi < Len(loc.zip) THEN "dl586" ELSE "dl609"
    /\ UNCHANGED <<status, api, icons, fs, op, loc, hist, ops, clock, library>>

\* lines 586, 605-606: the abort check that precedes every archive entry
DL_CheckAbortEntry ==
    /\ pc = "dl586"
    /\ IF ~AbortSeen
       THEN pc' = "dl594" /\ UNCHANGED <<loc, hist>>
       ELSE /\ CallReset(AbortArgs, AbortExtractRet)
            /\ hist' = [hist EXCEPT !.outcome = "abort_ex",
                                    !.seenPhase = "extract",
                                    !.seenPos = loc.i + 1,
                                    !.seenZi = loc.zi]
    /\ UNCHANGED <<status, api, icons, fs, op, ops, clock, library>>

\* line 591: os.makedirs(os.path.dirname(file_path), exist_ok=True)
MakeDirs(path) == [p \in DOMAIN fs |-> IF p \in Parents(path) THEN IsDir ELSE fs[p]]

\* lines 587-595: the directories above the entry's path are created, which
\* raises FileExistsError when one of them is a regular file; then the
\* destination is created or truncated, which raises IsADirectoryError when
\* the path is a directory.  A directory-only entry is opened like a file.
DL_OpenTarget ==
    /\ pc = "dl594"
    /\ LET file_path == EntryPath(loc.rom, CurrentEntry) IN
       IF \E d \in Parents(file_path) : fs[d] >= 0
       THEN /\ pc' = "raised" /\ fs' = fs /\ loc' = loc
            /\ hist' = [hist EXCEPT !.outcome = "file_exists"]
       ELSE IF fs[file_path] = IsDir
       THEN /\ pc' = "raised" /\ fs' = MakeDirs(file_path) /\ loc' = loc
            /\ hist' = [hist EXCEPT !.outcome = "is_a_directory"]
       ELSE /\ pc' = "dl597"
            /\ fs' = [MakeDirs(file_path) EXCEPT ![file_path] = 0]
            /\ loc' = [loc EXCEPT !.eleft = CurrentEntry.file_size]
            /\ hist' = hist
    /\ UNCHANGED <<status, api, icons, op, ops, clock, library>>

\* lines 597-599
DL_ReadEntry ==
    /\ pc = "dl597"
    /\ IF loc.eleft = 0
       THEN /\ pc' = "dl585"
            /\ loc' = [loc EXCEPT !.zi = @ + 1]
            /\ hist' = [hist EXCEPT !.done = @ \cup {loc.zi + 1}]
       ELSE /\ pc' = "dl600"
            /\ loc' = [loc EXCEPT !.chunk = Min(chunk_size, loc.eleft),
                                  !.eleft = @ - Min(chunk_size, loc.eleft)]
            /\ hist' = [hist EXCEPT !.flagAtRead = status.abort_download]
    /\ UNCHANGED <<status, api, icons, fs, op, ops, clock, library>>

\* line 600
DL_WriteEntry ==
    /\ Step("dl600", "dl601")
    /\ fs' = [fs EXCEPT ![EntryPath(loc.rom, CurrentEntry)] = @ + loc.chunk]
    /\ UNCHANGED <<status, api, icons, op, loc, hist, ops, clock, library>>

\* lines 601-604
DL_ExtractProgress ==
    /\ \/ /\ Step("dl601", "dl602")
          /\ loc' = [loc EXCEPT !.extracted_size = @ + loc.chunk]
          /\ status' = status
       \/ /\ Step("dl602", "dl597")
          /\ Write("extracted_percent", <<loc.extracted_size, loc.total_size>>)
          /\ loc' = loc
    /\ UNCHANGED <<api, icons, fs, op, hist, ops, clock, library>>

\* lines 609-611: extraction finished, the archive is deleted
DL_FinishExtract ==
    /\ \/ /\ Step("dl609", "dl610") /\ Write("extracting_rom", FALSE)
          /\ UNCHANGED <<fs, loc, hist>>
       \/ /\ Step("dl610", "dl611") /\ Write("downloading_rom", None)
          /\ UNCHANGED <<fs, loc, hist>>
       \/ /\ Step("dl611", "dl530")
          /\ fs' = [fs EXCEPT ![DestPath(loc.rom)] = Absent]
          /\ loc' = [loc EXCEPT !.i = @ + 1]
          /\ hist' = [hist EXCEPT !.fin = @ + 1]
          /\ status' = status
    /\ UNCHANGED <<api, icons, op, ops, clock, library>>

download_rom ==
    \/ DL_Sort \/ DL_For \/ DL_SetCursor \/ DL_Request \/ DL_Scheme \/ DL_UrlOpen
    \/ DL_OpenDest \/ DL_ZeroBytes \/ DL_CheckAbort \/ DL_Read \/ DL_WriteChunk
    \/ DL_Progress \/ DL_RemoveAndReturn \/ DL_IsMulti \/ DL_SetExtracting
    \/ DL_OpenZip \/ DL_ForEntry \/ DL_CheckAbortEntry \/ DL_OpenTarget
    \/ DL_ReadEntry \/ DL_WriteEntry \/ DL_ExtractProgress \/ DL_FinishExtract
    \/ _reset_download_status

\* ------------------------------------------------- catalog fetches: shared
\* Every fetch handles a failure the same way (lines 222-225, 228-231,
\* 236-239, 244-247 and their copies): reset the result list, write
\* valid_host, write valid_credentials, return.
HostError == [valid_host |-> FALSE, valid_credentials |-> FALSE]

\* a 403 handler that treats the answer like a host error
Forbidden_ashosterror == [valid_host |-> FALSE, valid_credentials |-> FALSE]

Forbidden == [valid_host |-> TRUE, valid_credentials |-> FALSE]

Reachable == [valid_host |-> TRUE, valid_credentials |-> TRUE]

\* the 404 handler of an optional resource (lines 190-194)
NotFound == [valid_host |-> TRUE, valid_credentials |-> TRUE]

ListOf(o) ==
    CASE o = "fetch_platforms" -> "platforms"
      [] o = "fetch_collections" -> "collections"
      [] o = "fetch_roms" -> "roms"
      [] OTHER -> "none"

ReadyOf(o) ==
    CASE o = "fetch_platforms" -> "platforms_ready"
      [] o = "fetch_collections" -> "collections_ready"
      [] o = "fetch_roms" -> "roms_ready"
      [] o = "fetch_me" -> "me_ready"
      [] OTHER -> "download_rom_ready"

FirstPc(o) ==
    CASE o = "fetch_platforms" -> "fp218"
      [] o = "fetch_collections" -> "fc318"
      [] o = "fetch_roms" -> "fr408"
      [] OTHER -> "fm128"

FetchOps == {"fetch_platforms", "fetch_collections", "fetch_roms", "fetch_me"}

\* The flag writes of a handler, then control goes to ret.
SetFlags(flags, ret) ==
    loc' = [loc EXCEPT !.f_vh = flags.valid_host, !.f_vc = flags.valid_credentials,
                       !.f_ret = ret]

FailPc == IF ListOf(op) = "none" THEN "ft_host" ELSE "ft_list"

FailWith(flags, outcome) ==
    /\ SetFlags(flags, "returned")
    /\ pc' = FailPc
    /\ hist' = [hist EXCEPT !.outcome = outcome]

FT_List ==
    /\ Step("ft_list", "ft_host")
    /\ Write(ListOf(op), << >>)
    /\ UNCHANGED <<api, icons, fs, op, loc, hist, ops, clock, library>>

FT_Flags ==
    /\ \/ Step("ft_host", "ft_cred") /\ Write("valid_host", loc.f_vh)
       \/ pc = "ft_cred" /\ pc' = loc.f_ret /\ Write("valid_credentials", loc.f_vc)
    /\ UNCHANGED <<api, icons, fs, op, loc, hist, ops, clock, library>>

\* The last statement of a successful fetch: <kind>_ready.set()
FT_Ready ==
    /\ Step("ft_ready", "returned")
    /\ Write(ReadyOf(op), TRUE)
    /\ hist' = [hist EXCEPT !.raised = @ + 1]
    /\ UNCHANGED <<api, icons, fs, op, loc, ops, clock, library>>

\* lines 408-421: nothing is selected
Unscoped(s) ==
    /\ s.selected_platform = NoPlatform
    /\ s.selected_collection = NoCollection
    /\ s.selected_virtual_collection = NoCollection

\* a scope choice that looks at the collection first
View_collectionfirst ==
    IF status.selected_collection # NoCollection THEN "collection"
    ELSE IF status.selected_platform # NoPlatform THEN "platform"
    ELSE "virtual_collection"

\* lines 408-419: view
View ==
    IF status.selected_platform # NoPlatform THEN "platform"
    ELSE IF status.selected_collection # NoCollection THEN "collection"
    ELSE "virtual_collection"

\* lines 408-419: id
ScopeId ==
    IF View = "platform" THEN status.selected_platform.id
    ELSE IF View = "collection" THEN status.selected_collection.id
    ELSE status.selected_virtual_collection.id

\* the request a urlopen of the operation sends: fetch_roms names its scope
\* in the query ("<view>_id=<id>", line 425)
Sent ==
    Append(hist.log, IF op = "fetch_roms" THEN [view |-> View, id |-> ScopeId]
                     ELSE [view |-> op, id |-> 0])

\* The consumer selects a scope (fetch_roms only), clears the readiness
\* signal of the operation and starts it.
Selections ==
    { [p |-> NoPlatform, c |-> NoCollection, v |-> NoCollection],
      [p |-> [id |-> 1, slug |-> "SNES", rom_count |-> 3], c |-> NoCollection, v |-> NoCollection],
      [p |-> [id |-> 4, slug |-> "psx", rom_count |-> 2],
       c |-> [id |-> 1, name |-> "Favorites", rom_count |-> 2, virtual |-> FALSE],
       v |-> NoCollection],
      [p |-> NoPlatform, c |-> [id |-> 1, name |-> "Favorites", rom_count |-> 2, virtual |-> FALSE],
       v |-> [id |-> 9, name |-> "Action", rom_count |-> 4, virtual |-> TRUE]] }

StartFetch ==
    /\ pc \in Idle
    /\ ops < MaxOps
    /\ ops' = ops + 1
    /\ \E o \in FetchOps :
         /\ op' = o
         /\ pc' = FirstPc(o)
         /\ IF o = "fetch_roms"
            THEN \E sel \in Selections :
                   status' = [status EXCEPT !.roms_ready = FALSE,
                                            !.selected_platform = sel.p,
                                            !.selected_collection = sel.c,
                                            !.selected_virtual_collection = sel.v]
            ELSE status' = [status EXCEPT ![ReadyOf(o)] = FALSE]
         /\ hist' = [InitHist EXCEPT !.entry =
                        IF o = "fetch_roms" /\ Unscoped(status') THEN status' ELSE << >>]
    /\ loc' = InitLoc
    /\ UNCHANGED <<api, icons, fs, clock, library>>

\* Request(...), the scheme check and the main urlopen with its handlers:
\* lines 217-247 (fetch_platforms), 423-452 (fetch_roms), 127-154 (fetch_me)
RequestPcs == {"fp218", "fr424", "fm128"}

AfterRequest(p) ==
    CASE p = "fp218" -> "fp227" [] p = "fr424" -> "fr434" [] p = "fc318" -> "fc332"
      [] OTHER -> "fm137"

F_Request ==
    /\ pc \in RequestPcs \cup {"fc318"}
    /\ IF api.host = "malformed"
       THEN FailWith(HostError, "value_error")
       ELSE pc' = AfterRequest(pc) /\ UNCHANGED <<loc, hist>>
    /\ UNCHANGED <<status, api, icons, fs, op, ops, clock, library>>

SchemePcs == {"fp227", "fr434", "fm137", "fc332"}

AfterScheme(p) ==
    CASE p = "fp227" -> "fp232" [] p = "fr434" -> "fr439" [] p = "fc332" -> "fc338"
      [] OTHER -> "fm141"

F_Scheme ==
    /\ pc \in SchemePcs
    /\ IF api.host # "http"
       THEN FailWith(HostError, "bad_scheme")
       ELSE pc' = AfterScheme(pc) /\ UNCHANGED <<loc, hist>>
    /\ UNCHANGED <<status, api, icons, fs, op, ops, clock, library>>

\* The handlers of the main request: HTTPError 403, any other HTTPError
\* (re-raised), URLError.
F_HttpFailure ==
    /\ pc \in {"fp232", "fr439", "fm141", "fc338", "fc341"}
    /\ \/ /\ SetFlags(Forbidden, "returned") /\ pc' = FailPc
          /\ hist' = [hist EXCEPT !.outcome = "http403", !.log = Sent]
       \/ /\ SetFlags(HostError, "returned") /\ pc' = FailPc
          /\ hist' = [hist EXCEPT !.outcome = "url_error", !.log = Sent]
       \/ /\ pc' = "raised" /\ loc' = loc
          /\ hist' = [hist EXCEPT !.outcome = "http_other", !.log = Sent]
    /\ UNCHANGED <<status, api, icons, fs, op, ops, clock, library>>

\* ------------------------------------------------- API.fetch_platforms
roms_subfolders ==
    IF api.device = "generic" THEN api.roms_subfolders ELSE {}

\* a filter whose allow-list branches do not consult the exclude set
PlatformIncluded_noexclude(platform) ==
    LET platform_slug == Lower(platform.slug) IN
    /\ platform.rom_count > 0
    /\ IF /\ api.env_platforms # {}
          /\ platform_slug \in api.env_platforms
          /\ platform_slug \notin api._exclude_platforms
       THEN TRUE
       ELSE IF api.device = "muos"
       THEN platform_slug \in MUOS_SUPPORTED_PLATFORMS
       ELSE IF api.device = "spruceos"
       THEN platform_slug \in SPRUCEOS_SUPPORTED_PLATFORMS
       ELSE Lower(ES_FOLDER_MAP(platform_slug)) \in roms_subfolders

\* a filter that does not consult the custom mapping
PlatformIncluded_nomapping(platform) ==
    LET platform_slug == Lower(platform.slug) IN
    /\ platform.rom_count > 0
    /\ platform_slug \notin api._exclude_platforms
    /\ IF api.device = "muos"
       THEN platform_slug \in MUOS_SUPPORTED_PLATFORMS
       ELSE IF api.device = "spruceos"
       THEN platform_slug \in SPRUCEOS_SUPPORTED_PLATFORMS
       ELSE Lower(ES_FOLDER_MAP(platform_slug)) \in roms_subfolders

\* lines 264-294: is the platform kept?
PlatformIncluded(platform) ==
    LET platform_slug == Lower(platform.slug) IN
    /\ platform.rom_count > 0
    /\ IF /\ api.env_platforms # {}
          /\ platform_slug \in api.env_platforms
          /\ platform_slug \notin api._exclude_platforms
       THEN TRUE
       ELSE IF api.device = "muos"
       THEN platform_slug \in MUOS_SUPPORTED_PLATFORMS
            /\ platform_slug \notin api._exclude_platforms
       ELSE IF api.device = "spruceos"
       THEN platform_slug \in SPRUCEOS_SUPPORTED_PLATFORMS
            /\ platform_slug \notin api._exclude_platforms
       ELSE Lower(ES_FOLDER_MAP(platform_slug)) \in roms_subfolders
            /\ platform_slug \notin api._exclude_platforms

\* lines 232, 248: the response body is parsed; an envelope object is not
\* unwrapped here, so indexing its keys raises TypeError
FP_Response ==
    /\ pc = "fp232"
    /\ \E body \in Bodies(PlatformItems) :
         IF body.shape = "envelope"
         THEN /\ pc' = "raised" /\ loc' = loc
              /\ hist' = [hist EXCEPT !.outcome = "type_error", !.log = Sent]
         ELSE /\ pc' = "fp263"
              /\ loc' = [loc EXCEPT !.items = body.items, !.k = 0, !.result = << >>]
              /\ hist' = [hist EXCEPT !.outcome = "ok", !.log = Sent]
    /\ UNCHANGED <<status, api, icons, fs, op, ops, clock, library>>

\* lines 263-308: one iteration of the loop over the platforms
FP_Loop ==
    /\ pc = "fp263"
    /\ IF loc.k = Len(loc.items)
       THEN pc' = "fp310" /\ loc' = loc
       ELSE LET platform == loc.items[loc.k + 1] IN
            IF PlatformIncluded(platform)
            THEN /\ loc' = [loc EXCEPT !.result = Append(@, platform)]
                 /\ pc' = IF platform.slug \in icons THEN "fp309" ELSE "ic167"
            ELSE pc' = "fp309" /\ loc' = loc
    /\ UNCHANGED <<status, api, icons, fs, op, hist, ops, clock, library>>

FP_NextPlatform ==
    /\ Step("fp309", "fp263")
    /\ loc' = [loc EXCEPT !.k = @ + 1]
    /\ hist' = [hist EXCEPT !.sub = "none"]
    /\ UNCHANGED <<status, api, icons, fs, op, ops, clock, library>>

\* API._fetch_platform_icon, lines 161-214
_fetch_platform_icon ==
    /\ pc = "ic167"
    /\ \/ /\ icons' = icons \cup {loc.items[loc.k + 1].slug}
          /\ SetFlags(Reachable, "fp309") /\ pc' = "ft_host"
          /\ hist' = [hist EXCEPT !.sub = "ok"]
       \/ /\ SetFlags(Forbidden, "fp309") /\ pc' = "ft_host" /\ icons' = icons
          /\ hist' = [hist EXCEPT !.sub = "http403", !.iconFailed = TRUE]
       \/ /\ SetFlags(NotFound, "fp309") /\ pc' = "ft_host" /\ icons' = icons
          /\ hist' = [hist EXCEPT !.sub = "http404"]
       \/ /\ SetFlags(HostError, "fp309") /\ pc' = "ft_host" /\ icons' = icons
          /\ hist' = [hist EXCEPT !.sub = "url_error", !.iconFailed = TRUE]
       \/ /\ pc' = "raised" /\ loc' = loc /\ icons' = icons
          /\ hist' = [hist EXCEPT !.sub = "http_other"]
    /\ UNCHANGED <<status, api, fs, op, ops, clock, library>>

\* an end of the fetch that leaves the flags as the last icon fetch set them
PublishFlags_kept ==
    [valid_host |-> status.valid_host, valid_credentials |-> status.valid_credentials]

\* lines 312-313 (and 403-404, 510-511)
PublishFlags == Reachable

\* lines 310-314 (and 402-405, 509-512): publish the list, set both flags,
\* raise the readiness signal
F_Publish ==
    /\ pc \in {"fp310", "fc402", "fr509"}
    /\ pc' = "ft_host"
    /\ Write(ListOf(op), loc.result)
    /\ SetFlags(PublishFlags, "ft_ready")
    /\ UNCHANGED <<api, icons, fs, op, hist, ops, clock, library>>

fetch_platforms ==
    \/ FP_Response \/ FP_Loop \/ FP_NextPlatform \/ _fetch_platform_icon

\* ----------------------------------------------- API.fetch_collections
\* a filter that consults the exclude-list next to the include-list
CollectionKept_both(collection) ==
    /\ collection.rom_count > 0
    /\ (api._include_collections # {} =>
           collection.name \in api._include_collections)
    /\ collection.name \notin api._exclude_collections

\* lines 368-375 and 385-392
CollectionKept(collection) ==
    /\ collection.rom_count > 0
    /\ IF api._include_collections # {}
       THEN collection.name \in api._include_collections
       ELSE IF api._exclude_collections # {}
            THEN collection.name \notin api._exclude_collections
            ELSE TRUE

AsCollections(items, virtual) ==
    LET kept == SelectSeq(items, CollectionKept) IN
    [k \in 1..Len(kept) |->
        [id |-> kept[k].id, name |-> kept[k].name,
         rom_count |-> kept[k].rom_count, virtual |-> virtual]]

\* lines 338-340
FC_Response ==
    /\ Step("fc338", "fc341")
    /\ \E body \in Bodies(CollectionItems) : loc' = [loc EXCEPT !.items = body.items]
    /\ hist' = [hist EXCEPT !.log = Sent]
    /\ UNCHANGED <<status, api, icons, fs, op, ops, clock, library>>

\* lines 341-400: second response, both bodies unwrapped and filtered
FC_VirtualResponse ==
    /\ Step("fc341", "fc402")
    /\ \E body \in Bodies(VirtualCollectionItems) :
         loc' = [loc EXCEPT !.v_items = body.items,
                            !.result = AsCollections(loc.items, FALSE)
                                       \o AsCollections(body.items, TRUE)]
    /\ hist' = [hist EXCEPT !.outcome = "ok", !.log = Sent]
    /\ UNCHANGED <<status, api, icons, fs, op, ops, clock, library>>

fetch_collections == FC_Response \/ FC_VirtualResponse

\* ------------------------------------------------------ API.fetch_roms
\* lines 408-421: the scope, or an immediate return without one
FR_Scope ==
    /\ pc = "fr408"
    /\ pc' = IF Unscoped(status) THEN "returned" ELSE "fr424"
    /\ hist' = [hist EXCEPT !.outcome =
                  IF pc' = "returned" THEN "no_selection" ELSE @]
    /\ UNCHANGED <<status, api, icons, fs, op, loc, ops, clock, library>>

\* lines 471-491
RomIncluded(rom) ==
    LET platform_slug == Lower(rom.platform_slug) IN
    /\ IF api.env_platforms # {} /\ platform_slug \in api.env_platforms
       THEN TRUE
       ELSE IF api.device = "muos"
       THEN platform_slug \in MUOS_SUPPORTED_PLATFORMS
       ELSE IF api.device = "spruceos"
       THEN platform_slug \in SPRUCEOS_SUPPORTED_PLATFORMS
       ELSE Lower(ES_FOLDER_MAP(platform_slug)) \in roms_subfolders
    /\ (View = "platform" => platform_slug = Lower(status.selected_platform.slug))

\* lines 439, 455-507
FR_Response ==
    /\ Step("fr439", "fr509")
    /\ \E body \in Bodies(RomItems) :
         loc' = [loc EXCEPT !.items = body.items,
                            !.result = SelectSeq(body.items, RomIncluded)]
    /\ hist' = [hist EXCEPT !.outcome = "ok", !.log = Sent]
    /\ UNCHANGED <<status, api, icons, fs, op, ops, clock, library>>

fetch_roms == FR_Scope \/ FR_Response

\* -------------------------------------------------------- API.fetch_me
\* lines 141, 155-158
FM_Response ==
    /\ pc = "fm141"
    /\ \E me \in MeItems :
         /\ Write("me", me)
         /\ pc' = IF me.avatar_path # "" THEN "pp99" ELSE "ft_ready"
    /\ hist' = [hist EXCEPT !.outcome = "ok", !.log = Sent]
    /\ UNCHANGED <<api, icons, fs, op, loc, ops, clock, library>>

\* API._fetch_user_profile_picture, lines 80-124
_fetch_user_profile_picture ==
    /\ pc = "pp99"
    /\ \/ /\ SetFlags(Reachable, "ft_ready") /\ pc' = "ft_host"
          /\ hist' = [hist EXCEPT !.sub = "ok"]
       \/ /\ SetFlags(Forbidden, "ft_ready") /\ pc' = "ft_host"
          /\ hist' = [hist EXCEPT !.sub = "http403"]
       \/ /\ SetFlags(HostError, "ft_ready") /\ pc' = "ft_host"
          /\ hist' = [hist EXCEPT !.sub = "url_error"]
       \* lines 106-107: every status but 403, a 404 included, is re-raised
       \/ /\ pc' = "raised" /\ loc' = loc
          /\ \E code \in {"http404", "http_other"} :
               hist' = [hist EXCEPT !.sub = code]
    /\ UNCHANGED <<status, api, icons, fs, op, ops, clock, library>>

fetch_me == FM_Response \/ _fetch_user_profile_picture

Fetch ==
    \/ F_Request \/ F_Scheme \/ F_HttpFailure \/ FT_List \/ FT_Flags \/ FT_Ready
    \/ F_Publish \/ fetch_platforms \/ fetch_collections \/ fetch_roms \/ fetch_me

\* ------------------------------------------------ bearer token (AuthSession)
\* Answers of api/auth/token: access_token and refresh_token may be missing
\* (token_data.get returns None), expires_in may be missing (Absent).
TokenResponses ==
    [ access_token : {NoToken, "at"}, refresh_token : {NoToken, "rt"},
      expires_in : {Absent, 1} ]

ExpiresIn(token_data) ==
    IF token_data.expires_in = Absent THEN default_expires_in
    ELSE token_data.expires_in

\* lines 645-652 and 686-693: the three fields are stored; the expiry only
\* with an access token
StoreToken(token_data) ==
    api' = [api EXCEPT !.access_token = token_data.access_token,
                       !.refresh_token = token_data.refresh_token,
                       !.token_expires_at =
                           IF token_data.access_token # NoToken
                           THEN clock + ExpiresIn(token_data) ELSE @]

Log(kind) == Append(hist.log, kind)

\* where the caller of _ensure_valid_token continues (lines 772, 848, 904)
TokenReturn(ok) == pc' = "da772" /\ loc' = [loc EXCEPT !.tok_ok = ok]

\* an expiry test that lets the token live through its expiry instant
Expired_strict == api.token_expires_at # NoExpiry /\ clock > api.token_expires_at

\* line 709
Expired == api.token_expires_at # NoExpiry /\ clock >= api.token_expires_at

\* API._ensure_valid_token, lines 704-712
_ensure_valid_token ==
    /\ pc = "ev706"
    /\ hist' = [hist EXCEPT !.ev = TRUE, !.evTok = api.access_token,
                            !.evRef = api.refresh_token,
                            !.evExp = api.token_expires_at, !.evClock = clock]
    /\ IF api.access_token = NoToken
       THEN pc' = "ga636" /\ loc' = loc
       ELSE IF Expired
            THEN pc' = "ra667" /\ loc' = loc
            ELSE TokenReturn(TRUE)
    /\ UNCHANGED <<status, api, icons, fs, op, ops, clock, library>>

\* line 693: return False
RefreshWithoutToken == "da772"

\* API._refresh_access_token, lines 665-702
_refresh_access_token ==
    \/ /\ pc = "ra667"
       /\ pc' = IF api.refresh_token = NoToken THEN "ga636" ELSE "ra677"
       /\ UNCHANGED <<status, api, icons, fs, op, loc, hist, ops, clock, library>>
    \/ /\ pc = "ra677"
       /\ IF api.host = "malformed"
          THEN /\ pc' = "ga636" /\ api' = api /\ loc' = loc
               /\ hist' = [hist EXCEPT !.refresh = "value_error"]
          ELSE \/ \E token_data \in TokenResponses :
                    /\ StoreToken(token_data)
                    /\ hist' = [hist EXCEPT !.log = Log("refresh"),
                            !.refresh = IF token_data.access_token # NoToken
                                        THEN "ok" ELSE "no_access_token"]
                    /\ IF token_data.access_token # NoToken
                       THEN TokenReturn(TRUE)
                       ELSE /\ pc' = RefreshWithoutToken
                            /\ loc' = [loc EXCEPT !.tok_ok = FALSE]
               \/ \E failure \in {"http_error", "url_error", "exception"} :
                    /\ pc' = "ga636" /\ api' = api /\ loc' = loc
                    /\ hist' = [hist EXCEPT !.log = Log("refresh"),
                                            !.refresh = failure]
       /\ UNCHANGED <<status, icons, fs, op, ops, clock, library>>

\* API._get_access_token, lines 625-663
_get_access_token ==
    /\ pc = "ga636"
    /\ IF api.host = "malformed"
       THEN /\ TokenReturn(FALSE) /\ api' = api
            /\ hist' = [hist EXCEPT !.grant = "value_error"]
       ELSE \/ \E token_data \in TokenResponses :
                 /\ StoreToken(token_data)
                 /\ TokenReturn(token_data.access_token # NoToken)
                 /\ hist' = [hist EXCEPT !.log = Log("password"),
                         !.grant = IF token_data.access_token # NoToken
                                   THEN "ok" ELSE "no_access_token"]
            \/ \E failure \in {"http_error", "url_error", "exception"} :
                 /\ TokenReturn(FALSE) /\ api' = api
                 /\ hist' = [hist EXCEPT !.log = Log("password"), !.grant = failure]
    /\ UNCHANGED <<status, icons, fs, op, ops, clock, library>>

\* --------------------------------- saves and states: dual-auth operations
DualOps ==
    {"fetch_saves", "fetch_states", "fetch_save_detail", "download_save",
     "download_state"}

ListOps == {"fetch_saves", "fetch_states"}

SyncList(o) == IF o = "fetch_saves" THEN "saves" ELSE "states"

SyncReady(o) == IF o = "fetch_saves" THEN "saves_ready" ELSE "states_ready"

\* Records of api/saves and api/states.
SaveItems == << [id |-> 1], [id |-> 2] >>

\* Bodies of a 200 answer: a list of records; an object (iterating it yields
\* its keys, which have no .get); bytes that json.loads rejects; for a
\* download the content, or a connection that breaks while response.read()
\* runs.
BodiesOf(o) ==
    IF o \in ListOps THEN {"list", "envelope", "garbled"}
    ELSE IF o = "fetch_save_detail" THEN {"object", "garbled"}
    ELSE {"content", "read_error"}

HttpFailures == {"http403", "http_other", "url_error"}

\* The consumer clears the readiness signal of a list operation and starts
\* the operation on a thread.
StartSync ==
    /\ pc \in Idle
    /\ ops < MaxOps
    /\ ops' = ops + 1
    /\ \E o \in DualOps :
         /\ op' = o
         /\ status' = IF o \in ListOps THEN [status EXCEPT ![SyncReady(o)] = FALSE]
                      ELSE status
         /\ hist' = [InitHist EXCEPT !.before =
                        IF o \in ListOps THEN status[SyncList(o)] ELSE << >>]
    /\ pc' = "da731"
    /\ loc' = [InitLoc EXCEPT !.auth = "basic"]
    /\ UNCHANGED <<api, icons, fs, clock, library>>

\* where a failed bearer attempt or a missing token ends: the list
\* operations raise their signal first (lines 774, 822, 825, 828), the others
\* return None
GiveUp == IF op \in ListOps THEN "da_ready" ELSE "returned"

\* an exception while the answer is processed: the basic attempt's
\* `except Exception` falls through to the bearer attempt (lines 766-768),
\* the bearer attempt's ends the operation (lines 826-828)
Raise ==
    IF loc.auth = "basic"
    THEN pc' = "ev706" /\ hist' = [hist EXCEPT !.excAfter = TRUE]
    ELSE pc' = GiveUp /\ hist' = [hist EXCEPT !.outcome = "bearer_exception"]

\* lines 731-733 and 762-768: the basic-auth request
DA_Basic ==
    /\ pc = "da731"
    /\ IF api.host = "malformed"
       THEN /\ pc' = "ev706" /\ loc' = loc
            /\ hist' = [hist EXCEPT !.basic = "value_error"]
       ELSE \/ \E failure \in HttpFailures :
                 /\ pc' = "ev706" /\ loc' = loc
                 /\ hist' = [hist EXCEPT !.log = Log("basic"), !.basic = failure]
            \/ \E body \in BodiesOf(op) :
                 /\ pc' = "da734"
                 /\ loc' = [loc EXCEPT !.body = body]
                 /\ hist' = [hist EXCEPT !.log = Log("basic"), !.basic = "accepted"]
    /\ UNCHANGED <<status, api, icons, fs, op, ops, clock, library>>

\* lines 772-775: without a token the operation ends
DA_AfterToken ==
    /\ pc = "da772"
    /\ IF loc.tok_ok
       THEN /\ pc' = "da790"
            /\ loc' = [loc EXCEPT !.auth = "bearer"]
            /\ hist' = hist
       ELSE /\ pc' = GiveUp /\ loc' = loc
            /\ hist' = [hist EXCEPT !.outcome = "no_token"]
    /\ UNCHANGED <<status, api, icons, fs, op, ops, clock, library>>

\* lines 789-792 and 820-825: the bearer request
DA_Bearer ==
    /\ pc = "da790"
    /\ \/ \E failure \in HttpFailures :
            /\ pc' = GiveUp /\ loc' = loc
            /\ hist' = [hist EXCEPT !.log = Log("bearer"), !.bearer = failure,
                                    !.outcome = "bearer_failed"]
       \/ \E body \in BodiesOf(op) :
            /\ pc' = "da734"
            /\ loc' = [loc EXCEPT !.body = body]
            /\ hist' = [hist EXCEPT !.log = Log("bearer"), !.bearer = "accepted"]
    /\ UNCHANGED <<status, api, icons, fs, op, ops, clock, library>>

\* lines 734-736 (793-795), 838 (858), 882-887 (917-922)
DA_Parse ==
    /\ pc = "da734"
    /\ IF loc.body = "garbled"
       THEN Raise /\ loc' = loc
       ELSE IF op \in ListOps
       THEN pc' = "da738" /\ UNCHANGED <<loc, hist>>
       ELSE IF op = "fetch_save_detail"
       THEN /\ pc' = "returned"
            /\ loc' = [loc EXCEPT !.ret = "object"]
            /\ hist' = [hist EXCEPT !.outcome = "ok"]
       ELSE pc' = "da889" /\ UNCHANGED <<loc, hist>>
    /\ UNCHANGED <<status, api, icons, fs, op, ops, clock, library>>

\* line 738 (797): self.status.saves = []
DA_ResetList ==
    /\ Step("da738", "da739")
    /\ Write(SyncList(op), << >>)
    /\ loc' = [loc EXCEPT !.k = 0]
    /\ UNCHANGED <<api, icons, fs, op, hist, ops, clock, library>>

\* lines 739-758 (798-817): one record is converted and appended
DA_Loop ==
    /\ pc = "da739"
    /\ IF loc.body = "envelope"
       THEN Raise /\ UNCHANGED <<status, loc>>
       ELSE IF loc.k = Len(SaveItems)
       THEN /\ pc' = "da_ready"
            /\ hist' = [hist EXCEPT !.outcome = "ok"]
            /\ UNCHANGED <<status, loc>>
       ELSE /\ pc' = "da739"
            /\ Write(SyncList(op), Append(status[SyncList(op)], SaveItems[loc.k + 1]))
            /\ loc' = [loc EXCEPT !.k = @ + 1]
            /\ hist' = hist
    /\ UNCHANGED <<api, icons, fs, op, ops, clock, library>>

\* lines 760, 774, 819, 822, 825, 828: saves_ready.set()
DA_Ready ==
    /\ Step("da_ready", "returned")
    /\ Write(SyncReady(op), TRUE)
    /\ hist' = [hist EXCEPT !.raised = @ + 1]
    /\ UNCHANGED <<api, icons, fs, op, loc, ops, clock, library>>

\* lines 889-893 (924-928): the save is written to its file
DA_WriteFile ==
    /\ \/ /\ Step("da889", "da890")
          /\ fs' = [fs EXCEPT ![SyncPath(op)] = 0]
          /\ UNCHANGED <<loc, hist>>
       \/ /\ pc = "da890"
          /\ IF loc.body = "read_error"
             THEN Raise /\ UNCHANGED <<fs, loc>>
             ELSE /\ pc' = "returned"
                  /\ fs' = [fs EXCEPT ![SyncPath(op)] = SaveSize]
                  /\ loc' = [loc EXCEPT !.ret = "file_path"]
                  /\ hist' = [hist EXCEPT !.outcome = "ok"]
    /\ UNCHANGED <<status, api, icons, op, ops, clock, library>>

Sync ==
    \/ DA_Basic \/ DA_AfterToken \/ DA_Bearer \/ DA_Parse \/ DA_ResetList
    \/ DA_Loop \/ DA_Ready \/ DA_WriteFile
    \/ _ensure_valid_token \/ _refresh_access_token \/ _get_access_token

\* status.py, lines 88-92 (called by the consumer between operations)
reset_saves_list ==
    /\ pc \in Idle
    /\ status.saves # << >>
    /\ Write("saves", << >>)
    /\ pc' = "idle" /\ op' = "none" /\ loc' = InitLoc /\ hist' = InitHist
    /\ UNCHANGED <<api, icons, fs, ops, clock, library>>

reset_states_list ==
    /\ pc \in Idle
    /\ status.states # << >>
    /\ Write("states", << >>)
    /\ pc' = "idle" /\ op' = "none" /\ loc' = InitLoc /\ hist' = InitHist
    /\ UNCHANGED <<api, icons, fs, ops, clock, library>>

\* time passes between two operations (an operation is short against the
\* unit of expires_in)
Tick ==
    /\ pc \in Idle
    /\ clock < MaxTime
    /\ clock' = clock + 1
    /\ pc' = "idle" /\ op' = "none" /\ loc' = InitLoc /\ hist' = InitHist
    /\ UNCHANGED <<status, api, icons, fs, ops, library>>

Next ==
    \/ ConsumerEnqueue \/ ConsumerClearAbort \/ ConsumerAbort
    \/ StartDownloadRom \/ download_rom
    \/ StartFetch \/ Fetch

Spec == Init /\ [][Next]_vars

\* The transfer engine alone: the consumer and download_rom.
NextTransfer ==
    \/ ConsumerEnqueue \/ ConsumerClearAbort \/ ConsumerAbort
    \/ StartDownloadRom \/ download_rom

\* the server holds every archive of Archives
InitTransfer ==
    /\ status = InitStatus
    /\ api \in { c \in Configs : c.device = "muos" }
    /\ icons = {}
    /\ fs = [p \in AllPaths |-> Absent]
    /\ op = "none"
    /\ pc = "idle"
    /\ loc = InitLoc
    /\ hist = InitHist
    /\ ops = 0
    /\ clock = 1
    /\ library = Archives

SpecTransfer == InitTransfer /\ [][NextTransfer]_vars

\* The transfer engine with a server whose archive has rooted and climbing
\* entry names.
InitSlip ==
    /\ status = InitStatus
    /\ api \in { c \in Configs : c.device = "muos" }
    /\ icons = {}
    /\ fs = [p \in AllPaths |-> Absent]
    /\ op = "none"
    /\ pc = "idle"
    /\ loc = InitLoc
    /\ hist = InitHist
    /\ ops = 0
    /\ clock = 1
    /\ library = {SlipEntryList}

SpecSlip == InitSlip /\ [][NextTransfer]_vars

\* The catalog fetches alone, over every device configuration.
InitCatalog ==
    /\ status = InitStatus
    /\ api \in { c \in Configs \cup MappedConfigs : c.host = "http" }
    /\ icons = {}
    /\ fs = [p \in AllPaths |-> Absent]
    /\ op = "none"
    /\ pc = "idle"
    /\ loc = InitLoc
    /\ hist = InitHist
    /\ ops = 0
    /\ clock = 1
    /\ library = Prefixes(EntryList)

NextCatalog == StartFetch \/ Fetch

SpecCatalog == InitCatalog /\ [][NextCatalog]_vars

\* The saves/states operations and the bearer token alone.
InitSync ==
    /\ status = InitStatus
    /\ api \in { c \in Configs : c.device = "muos" /\ c.host \in {"http", "malformed"} }
    /\ icons = {}
    /\ fs = [p \in AllPaths |-> Absent]
    /\ op = "none"
    /\ pc = "idle"
    /\ loc = InitLoc
    /\ hist = InitHist
    /\ ops = 0
    /\ clock = 1
    /\ library = Prefixes(EntryList)

NextSync == StartSync \/ Sync \/ reset_saves_list \/ reset_states_list \/ Tick

SpecSync == InitSync /\ [][NextSync]_vars

\* status.py 26-83, api.py 32-53: a further API object is constructed.
\* Status.__new__ hands out the instance made by the first construction;
\* Python then runs Status.__init__ on it, which assigns every field and makes
\* new Event objects.  The new API object starts without tokens.
API_init ==
    /\ pc \in Idle
    /\ ops < MaxOps
    /\ ops' = ops + 1
    /\ op' = "__init__"
    /\ pc' = "returned"
    /\ status' = InitStatus
    /\ api' = [api EXCEPT !.access_token = NoToken, !.refresh_token = NoToken,
                          !.token_expires_at = NoExpiry]
    /\ loc' = InitLoc
    /\ hist' = [InitHist EXCEPT !.entry = status]
    /\ UNCHANGED <<icons, fs, clock, library>>

\* The consumer, the catalog fetches and the construction of API objects.
NextConstruct ==
    \/ ConsumerEnqueue \/ ConsumerClearAbort
    \/ StartFetch \/ Fetch
    \/ API_init

SpecConstruct == Init /\ [][NextConstruct]_vars

\* ================================================================ claims
Terminal == {"returned", "raised"}

Aborts == {"abort_dl", "abort_ex"}

HostErrors == {"value_error", "bad_scheme", "url_error"}

\* C1: every catalog fetch that has returned to its caller, whatever its
\* outcome (success, request-construction failure, non-HTTP scheme, 403,
\* transport error), has raised its own readiness signal, so a consumer that
\* cleared the signal before the call does not wait forever.
C1_FetchAlwaysRaisesReady ==
    (op \in FetchOps /\ pc = "returned" /\ hist.outcome # "no_selection")
        => status[ReadyOf(op)]

\* C2: every download_rom invocation that has ended, whatever the outcome of
\* the drain, has raised download_rom_ready exactly once.
C2_DownloadReadyExactlyOnce ==
    (op = "download_rom" /\ pc \in Terminal) => hist.raised = 1

\* C3: in every state a consumer can observe, also between two field writes,
\* valid_host = false never comes with valid_credentials = true.
C3_NoHostFalseCredsTrue ==
    ~(~status.valid_host /\ status.valid_credentials)

\* C4 as stated: an abort flag set at any point of a title's download phase
\* stops the drain at that title, so that no later queue entry is requested.
C4_AbortAnywhereStopsQueue ==
    (op = "download_rom" /\ hist.abortPhase = "download")
        => hist.reqs <= hist.abortPos

C4_Observed ==
    hist.seenPhase = "download" =>
        /\ loc.left = hist.seenLeft
        /\ fs[DestPath(loc.rom)] \in {hist.seenSize, Absent}
        /\ hist.reqs = hist.seenPos
        /\ (pc = "returned" => fs[DestPath(loc.rom)] = Absent)

C4_SetInDownload ==
    (op = "download_rom" /\ hist.abortPhase = "download") =>
        /\ \A p \in hist.readPos : p <= hist.abortPos
        /\ hist.reqs <= hist.abortPos + 1

C4_CheckStep ==
    (pc = "dl558" /\ status.abort_download)
        => (pc' = "rs517" /\ hist'.seenPhase = "download" /\ fs' = fs)

\* C4 (amended): an abort flag that is set when download_rom checks it before
\* a chunk read is observed there: no further chunk is read or appended, the
\* partial destination file no longer exists when download_rom returns and no
\* later queue entry is requested; a flag set at any point of the download
\* phase lets no chunk of a later queue entry be read, and at most the next
\* entry is requested before the abort is observed.
C4_AbortObservedAtCheck ==
    [](C4_Observed /\ C4_SetInDownload) /\ [][C4_CheckStep]_vars

C4_Witness ==
    /\ op = "download_rom" /\ pc = "returned"
    /\ hist.abortPhase = "download" /\ hist.seenPhase = "download"
    /\ hist.seenSize > 0 /\ hist.seenLeft > 0
    /\ hist.seenPos < Len(loc.q)

\* the last of the entries n of an archive that is written to the path of
\* entry k
LastAt(rom, zip, n, k) ==
    LET same == { j \in n : EntryPath(rom, zip[j]) = EntryPath(rom, zip[k]) }
    IN zip[CHOOSE j \in same : \A i \in same : i <= j]

\* C5 as stated: an abort flag set while a multi-file title is being
\* extracted ends the drain at that title: no later queue entry is processed.
C5_AbortInExtractionStopsQueue ==
    (op = "download_rom" /\ hist.abortPhase = "extract")
        => hist.reqs <= hist.abortPos

\* C5 (amended): if the abort flag is set while a multi-file title is being
\* extracted then, when download_rom returns, the outer archive no longer
\* exists and every path an entry was extracted to in full holds the full
\* content of the last entry extracted to it;
\* no chunk of a later queue entry is read, and a later entry is not even
\* requested when the flag is seen by a check that precedes an archive entry
\* (after that check no further entry is extracted).
C5_AbortInExtraction ==
    (op = "download_rom" /\ hist.abortPhase = "extract") =>
        /\ \A p \in hist.readPos : p <= hist.abortPos
        /\ hist.reqs <= hist.abortPos + 1
        /\ (hist.seenPhase = "extract" =>
              /\ hist.reqs = hist.seenPos
              /\ hist.done = 1..hist.seenZi)
        /\ (pc = "returned" =>
              /\ fs[DestPath(loc.q[hist.abortPos])] = Absent
              /\ \A k \in hist.done :
                   fs[EntryPath(loc.q[hist.abortPos], loc.zip[k])] =
                       LastAt(loc.q[hist.abortPos], loc.zip, hist.done, k).file_size)

C5_Witness ==
    /\ op = "download_rom" /\ pc = "returned"
    /\ hist.abortPhase = "extract" /\ hist.seenPhase = "extract"
    /\ hist.done # {} /\ hist.seenZi < Len(loc.zip)
    /\ hist.seenPos < Len(loc.q)

\* C6: a download_rom invocation for which no abort was requested does not
\* end in an abort: a flag left set before it began is cleared when it begins.
C6_StaleAbortIsCleared ==
    (op = "download_rom" /\ hist.outcome \in Aborts) => hist.abortReq

\* C7: when download_rom has returned because of a user abort (download or
\* extraction phase), valid_host and valid_credentials are both true; after a
\* credential or host failure of download_rom they are not both true.
C7_AbortLeavesFlagsTrue ==
    (op = "download_rom" /\ pc = "returned") =>
        /\ (hist.outcome \in Aborts =>
              status.valid_host /\ status.valid_credentials)
        /\ (hist.outcome \in HostErrors \cup {"http403"} =>
              ~(status.valid_host /\ status.valid_credentials))

C7_Witness ==
    /\ op = "download_rom" /\ pc = "returned"
    /\ hist.outcome = "abort_ex" /\ hist.abortReq

\* C8: whenever download_rom has returned, the shared transfer state is fully
\* reset: queue and multi-selection empty, no current title, not extracting,
\* and every progress counter back at its initial value.
C8_ReturnResetsEverything ==
    (op = "download_rom" /\ pc = "returned") =>
        /\ status.download_queue = << >>
        /\ status.multi_selected_roms = << >>
        /\ status.downloading_rom = None
        /\ ~status.extracting_rom
        /\ status.total_downloaded_bytes = 0
        /\ status.downloaded_percent = <<0, 1>>
        /\ status.extracted_percent = <<0, 1>>
        /\ status.downloading_rom_position = 0

ResultEmpty ==
    IF op = "download_rom" THEN status.download_queue = << >>
    ELSE IF op = "fetch_me" THEN TRUE
    ELSE status[ListOf(op)] = << >>

\* C9: a host error (request cannot be built, scheme not http/https, URLError)
\* in a catalog fetch or in download_rom ends the operation without an
\* exception, with valid_host = false, valid_credentials = false and the
\* result list (or the queue) empty.
C9_HostErrorLeavesBothFalse ==
    (pc \in Terminal /\ hist.outcome \in HostErrors) =>
        /\ pc = "returned"
        /\ ~status.valid_host /\ ~status.valid_credentials
        /\ ResultEmpty

\* C10: an HTTP 403 answer to the main request of a catalog fetch or to a
\* title download ends the operation without an exception, with
\* valid_host = true, valid_credentials = false and the result list (or the
\* download queue) empty.
C10_ForbiddenLeavesHostTrue ==
    (pc \in Terminal /\ hist.outcome = "http403") =>
        /\ pc = "returned"
        /\ status.valid_host /\ ~status.valid_credentials
        /\ ResultEmpty

C10_Witness ==
    /\ pc = "returned" /\ hist.outcome = "http403"
    /\ op = "fetch_collections" /\ loc.items # << >>
    /\ ops = MaxOps

\* C11: an HTTP 404 for an optional resource (platform icon, user avatar) is
\* an expected absence: the enclosing fetch does not end with an exception
\* and, once the handler has written the flags, valid_host and
\* valid_credentials are both true.
C11_NotFoundIsExpectedAbsence ==
    hist.sub = "http404" =>
        /\ pc # "raised"
        /\ (pc \in {"fp309", "ft_ready", "returned"} =>
               status.valid_host /\ status.valid_credentials)

\* C17: after fetch_roms, in every scope, every title of status.roms belongs
\* to a platform that fetch_platforms includes under the same configuration;
\* in particular no title of an excluded platform appears.
C17_TitlesInheritPlatformDecision ==
    (op = "fetch_roms" /\ pc = "returned" /\ hist.outcome = "ok") =>
        \A k \in 1..Len(status.roms) :
            PlatformIncluded([id |-> 0, slug |-> status.roms[k].platform_slug,
                              rom_count |-> 1])

InPlatforms(p) == \E k \in 1..Len(status.platforms) : status.platforms[k] = p

AllowList ==
    IF api.device = "muos" THEN MUOS_SUPPORTED_PLATFORMS
    ELSE SPRUCEOS_SUPPORTED_PLATFORMS

PlatformsPublished ==
    op = "fetch_platforms" /\ pc = "returned" /\ hist.outcome = "ok"

\* C18: on a device kind with a built-in allow-list (muOS, SpruceOS), a
\* platform with a positive title count and no custom mapping is in
\* status.platforms after fetch_platforms iff its lower-cased slug is in the
\* allow-list and not in the exclude set; an excluded slug is never there.
C18_AllowListAndExclude ==
    (PlatformsPublished /\ api.device \in {"muos", "spruceos"}) =>
        \A k \in 1..Len(PlatformItems) :
            LET p == PlatformItems[k]
                slug == Lower(p.slug) IN
            /\ (p.rom_count > 0 /\ slug \notin api.env_platforms) =>
                  (InPlatforms(p) <=>
                      slug \in AllowList /\ slug \notin api._exclude_platforms)
            /\ slug \in api._exclude_platforms => ~InPlatforms(p)

C18_Witness ==
    /\ PlatformsPublished /\ api.device = "muos"
    /\ "snes" \in api._exclude_platforms
    /\ status.platforms = << >>

InCollections(c, virtual) ==
    \E k \in 1..Len(status.collections) :
        /\ status.collections[k].name = c.name
        /\ status.collections[k].id = c.id
        /\ status.collections[k].virtual = virtual

Passes(c) ==
    /\ c.rom_count > 0
    /\ IF api._include_collections # {}
       THEN c.name \in api._include_collections
       ELSE c.name \notin api._exclude_collections

\* C20: after fetch_collections a real or virtual collection is kept iff its
\* title count is positive and, when the include-list is non-empty, its name
\* is in the include-list (the exclude-list has no effect), otherwise its
\* name is not in the exclude-list.
C20_IncludeBeforeExclude ==
    (op = "fetch_collections" /\ pc = "returned" /\ hist.outcome = "ok") =>
        /\ \A k \in 1..Len(CollectionItems) :
              InCollections(CollectionItems[k], FALSE) <=> Passes(CollectionItems[k])
        /\ \A k \in 1..Len(VirtualCollectionItems) :
              InCollections(VirtualCollectionItems[k], TRUE)
                  <=> Passes(VirtualCollectionItems[k])

C20_Witness ==
    /\ op = "fetch_collections" /\ pc = "returned" /\ hist.outcome = "ok"
    /\ \E k \in 1..Len(status.collections) :
          /\ status.collections[k].name \in api._include_collections
          /\ status.collections[k].name \in api._exclude_collections

Count(seq, x) == Len(SelectSeq(seq, LAMBDA e : e = x))

\* C12: an operation whose request was answered with an HTTP status other
\* than 403 ends with an exception at its caller: the status is never
\* swallowed, the operation never completes (fetch_saves, fetch_states,
\* fetch_save_detail, download_save and download_state included).
C12_OtherStatusPropagates ==
    (pc \in Terminal /\ hist.bearer = "http_other") => pc = "raised"

\* C13: when fetch_saves (fetch_states) has ended with both attempts failed,
\* or without a bearer token, it has returned without raising, status.saves
\* (status.states) is empty whatever it held before, and its readiness
\* signal is raised.
C13_ExhaustionLeavesEmptyList ==
    (op \in ListOps /\ pc \in Terminal
        /\ hist.outcome \in {"no_token", "bearer_failed"}) =>
        /\ pc = "returned"
        /\ status[SyncList(op)] = << >>
        /\ status[SyncReady(op)]

\* C14: in a dual-auth operation the basic-auth request is the first request
\* and, when the server accepted it, the invocation sends no token request
\* and no bearer request, whatever happens while the answer is processed.
C14_NoTokenAfterAcceptedBasic ==
    (op \in DualOps /\ hist.log # << >>) =>
        /\ hist.log[1] = "basic"
        /\ hist.basic = "accepted" =>
              \A k \in 1..Len(hist.log) : hist.log[k] = "basic"

\* C15: when the refresh-token grant has failed for any reason (transport
\* error, HTTP error, answer without access token), _ensure_valid_token has
\* sent one password grant before it returns, and returns false without an
\* exception if that grant failed too.
C15_RefreshFailureReacquires ==
    (pc = "da772" /\ hist.refresh \notin {"none", "ok"}) =>
        /\ Count(hist.log, "password") = 1
        /\ (hist.grant # "ok" => ~loc.tok_ok)

\* the call of _ensure_valid_token of this invocation has returned
TokenSettled == hist.ev /\ pc \notin {"ev706", "ra667", "ra677", "ga636"}

\* what that call found: a cached token whose expiry instant has passed
FoundExpired ==
    hist.evTok # NoToken /\ hist.evExp # NoExpiry /\ hist.evClock >= hist.evExp

\* C16 (as stated): a call of _ensure_valid_token that finds a cached token
\* at or after its expiry instant sends exactly one refresh-token grant, and
\* a password grant only if that refresh failed.
C16_ExpiredTokenIsRefreshed ==
    (TokenSettled /\ FoundExpired) =>
        /\ Count(hist.log, "refresh") = 1
        /\ (Count(hist.log, "password") > 0 => hist.refresh \notin {"none", "ok"})

\* C16 (amended): a token stored at time t with lifetime E expires at t+E
\* (E = 1800 when the answer names none).  A call of _ensure_valid_token
\* before that instant sends no token request.  A call at or after it sends
\* exactly one refresh-token grant when a refresh token is cached, followed
\* by one password grant exactly when the refresh request failed (transport
\* error, HTTP error, exception); with no refresh token cached it sends one
\* password grant and no refresh grant.  A call with no cached token sends
\* one password grant and no refresh grant (no request at all when the
\* server address cannot be turned into a request).
C16_TokenRequestsFollowExpiry ==
    TokenSettled =>
        /\ (hist.evTok # NoToken /\ ~FoundExpired) =>
              Count(hist.log, "refresh") = 0 /\ Count(hist.log, "password") = 0
        /\ (FoundExpired /\ hist.evRef # NoToken) =>
              /\ Count(hist.log, "refresh") = 1
              /\ Count(hist.log, "password") =
                    IF hist.refresh \in {"http_error", "url_error", "exception"}
                    THEN 1 ELSE 0
        /\ (FoundExpired /\ hist.evRef = NoToken) =>
              Count(hist.log, "refresh") = 0 /\ Count(hist.log, "password") = 1
        /\ hist.evTok = NoToken =>
              /\ Count(hist.log, "refresh") = 0
              /\ Count(hist.log, "password") = IF api.host = "http" THEN 1 ELSE 0
        /\ (hist.grant = "ok" \/ hist.refresh = "ok") =>
              api.token_expires_at \in {hist.evClock + 1,
                                        hist.evClock + default_expires_in}

\* A token is found exactly at its expiry instant, with a refresh token, and
\* one successful refresh grant is sent.
C16_Witness ==
    /\ TokenSettled /\ FoundExpired
    /\ hist.evClock = hist.evExp
    /\ hist.evRef # NoToken
    /\ hist.refresh = "ok"
    /\ Count(hist.log, "refresh") = 1 /\ Count(hist.log, "password") = 0

\* the list a catalog fetch publishes for the records the server holds
Published(o) ==
    IF o = "fetch_platforms" THEN SelectSeq(PlatformItems, PlatformIncluded)
    ELSE IF o = "fetch_collections"
    THEN AsCollections(CollectionItems, FALSE) \o AsCollections(VirtualCollectionItems, TRUE)
    ELSE SelectSeq(RomItems, RomIncluded)

\* C21: a fetch_platforms, fetch_collections or fetch_roms whose requests
\* were all answered with the records, as a flat list or as an envelope
\* object, returns with the same result list: the one computed from the
\* records, whatever the form of the body.
C21_EnvelopeLikeFlatList ==
    (/\ op \in {"fetch_platforms", "fetch_collections", "fetch_roms"}
     /\ pc \in Terminal
     /\ hist.outcome \in {"ok", "type_error"}
     /\ hist.sub # "http_other") =>
        pc = "returned" /\ status[ListOf(op)] = Published(op)

\* the scope the selection asks for: platform before collection before
\* virtual collection
SelectedScope ==
    IF status.selected_platform # NoPlatform
    THEN [view |-> "platform", id |-> status.selected_platform.id]
    ELSE IF status.selected_collection # NoCollection
    THEN [view |-> "collection", id |-> status.selected_collection.id]
    ELSE [view |-> "virtual_collection", id |-> status.selected_virtual_collection.id]

PctLeq(x, y) == x[1] * y[2] <= y[1] * x[2]

PctEq(x, y) == x[1] * y[2] = y[1] * x[2]

Max(a, b) == IF a > b THEN a ELSE b

\* C23: while download_rom drains its queue (every step but those of
\* _reset_download_status, which end the invocation), no step lowers
\* total_downloaded_bytes, downloaded_percent or extracted_percent.
C23_ProgressNeverDecreases ==
    [][(op = "download_rom" /\ pc \notin Idle /\ pc \notin ResetPcs) =>
          /\ status'.total_downloaded_bytes >= status.total_downloaded_bytes
          /\ PctLeq(status.downloaded_percent, status'.downloaded_percent)
          /\ PctLeq(status.extracted_percent, status'.extracted_percent)]_vars

\* C24: downloaded_percent and extracted_percent always lie in [0, 100], and
\* ahead of a chunk read downloaded_percent is 0 only if no byte was counted.
C24_PercentWithinBounds ==
    /\ PctLeq(<<0, 1>>, status.downloaded_percent)
    /\ PctLeq(status.downloaded_percent, <<1, 1>>)
    /\ PctLeq(<<0, 1>>, status.extracted_percent)
    /\ PctLeq(status.extracted_percent, <<1, 1>>)
    /\ (pc = "dl558" /\ status.downloaded_percent[1] = 0 =>
           status.total_downloaded_bytes = 0)

\* C25: after every recomputation downloaded_percent equals
\* total_downloaded_bytes / max(declared size, 1) and extracted_percent
\* equals extracted bytes / max(total uncompressed size, 1); no
\* recomputation has a zero denominator.
C25_PercentFormula ==
    /\ status.downloaded_percent[2] # 0
    /\ status.extracted_percent[2] # 0
    /\ (pc = "dl558" /\ status.total_downloaded_bytes > 0 =>
           PctEq(status.downloaded_percent,
                 <<status.total_downloaded_bytes, Max(loc.rom.fs_size_bytes, 1)>>))
    /\ (pc = "dl597" /\ loc.extracted_size > 0 =>
           PctEq(status.extracted_percent,
                 <<loc.extracted_size, Max(loc.total_size, 1)>>))

RECURSIVE SumSeq(_)
SumSeq(q) == IF q = << >> THEN 0 ELSE Head(q) + SumSeq(Tail(q))

\* C26: when the chunk loop of a single-file title ends without abort and
\* the stream delivered the declared size, the destination holds a regular
\* file made of all chunks received, in the order of arrival, and its size
\* and total_downloaded_bytes equal the declared size.
C26_SingleFileComplete ==
    (/\ op = "download_rom" /\ pc = "dl578" /\ ~loc.rom.multi
     /\ SumSeq(hist.recv) = loc.rom.fs_size_bytes) =>
        /\ hist.file = [k \in 1..Len(hist.recv) |-> k]
        /\ fs[_sanitize_filename(loc.rom.fs_name)] = loc.rom.fs_size_bytes
        /\ status.total_downloaded_bytes = loc.rom.fs_size_bytes

\* A single-file title whose declared size arrived in two chunks.
C26_Witness ==
    /\ op = "download_rom" /\ pc = "dl578" /\ ~loc.rom.multi
    /\ Len(hist.recv) = 2
    /\ SumSeq(hist.recv) = loc.rom.fs_size_bytes
    /\ fs[DestPath(loc.rom)] = loc.rom.fs_size_bytes

\* the title whose transfer has just been completed
JustCompleted == op = "download_rom" /\ pc = "dl530" /\ loc.i >= 1

IsDirEntry(file) == file.filename[Len(file.filename)] = << >>

FileEntries(zip) == { k \in 1..Len(zip) : ~IsDirEntry(zip[k]) }

\* C27: when the transfer of a multi-file title has completed,
\* the archive file is gone and every file entry of the archive is at its
\* sanitized path under the title's directory with its full content.
C27_EveryEntryExtracted ==
    (JustCompleted /\ loc.q[loc.i].multi) =>
        /\ fs[DestPath(loc.q[loc.i])] = Absent
        /\ \A k \in FileEntries(loc.zip) :
              fs[EntryPath(loc.q[loc.i], loc.zip[k])] = loc.zip[k].file_size

\* C28: a directory-only entry that has been processed left a directory at
\* its sanitized path, added no byte to the extracted count, and does not
\* make the extraction of an entry inside that directory fail.
C28_DirectoryEntry ==
    (op = "download_rom" /\ loc.rom.multi /\ pc \in ExtractPhasePcs \cup {"raised"}) =>
        /\ \A k \in hist.done :
              IsDirEntry(loc.zip[k]) => fs[EntryPath(loc.rom, loc.zip[k])] = IsDir
        /\ hist.outcome \notin {"file_exists", "is_a_directory"}

\* C29: download_rom works on the queue in ascending name order, whatever
\* the order of enqueueing: the titles are requested in that order, a title
\* is requested only when the transfers of all titles before it have
\* finished, and downloading_rom_position takes the values 1, 2, ... in turn.
C29_NameOrder ==
    (op = "download_rom" /\ pc # "dl529") =>
        /\ Len(loc.q) = Len(hist.entry)
        /\ { loc.q[k] : k \in 1..Len(loc.q) } = { hist.entry[k] : k \in 1..Len(hist.entry) }
        /\ \A j, k \in 1..Len(loc.q) :
              j < k => NameRank(loc.q[j].name) < NameRank(loc.q[k].name)
        /\ hist.pos = [k \in 1..Len(hist.pos) |-> k]
        /\ hist.started = [k \in 1..Len(hist.started) |-> loc.q[k].name]
        /\ Len(hist.started) <= Len(hist.pos)
        /\ Len(hist.pos) <= Len(hist.started) + 1
        /\ hist.fin <= Len(hist.started)
        /\ Len(hist.pos) <= hist.fin + 1
        /\ (pc \in DownloadPhasePcs \cup ExtractPhasePcs =>
              hist.fin = loc.i /\ Len(hist.started) = loc.i + 1)

\* Two titles enqueued in descending name order were both transferred, in
\* ascending order.
C29_Witness ==
    /\ op = "download_rom" /\ pc = "returned"
    /\ Len(hist.entry) = 2
    /\ NameRank(hist.entry[1].name) > NameRank(hist.entry[2].name)
    /\ hist.started = <<"a", "b">>
    /\ hist.pos = <<1, 2>>
    /\ hist.fin = 2

\* C30: once an invocation has raised its readiness signal, no later step
\* of that invocation changes a status field or signal or the destination
\* files (steps of the consumer, which leave the position alone, are not
\* steps of the invocation).
C30_NothingAfterReady ==
    [][(hist.raised >= 1 /\ pc \notin Idle /\ pc' # pc) =>
          status' = status /\ fs' = fs]_vars

\* C31: the abort flag is checked before every chunk read and every chunk
\* write of the extraction: a chunk that was read from an archive entry while
\* the flag was already set is never written to the entry's destination.
C31_AbortCheckedBeforeEveryChunk ==
    pc = "dl601" => ~hist.flagAtRead

\* C32: constructing Status() again, as each new API object does, discards
\* nothing: after the construction the status holds what it held before it
\* (selected items, the download queue, the fetched lists, the signals).
C32_ConstructionKeepsState ==
    op = "__init__" => status = hist.entry

\* C33: extraction is entered only for a multi-file title whose download
\* loop has read the end of the stream, and whenever extracting_rom is true
\* downloading_rom is a multi-file title.
C33_TransferStateMachine ==
    /\ PhaseOf(pc) = "extract" => loc.rom.multi /\ loc.left = 0
    /\ status.extracting_rom =>
          status.downloading_rom # None /\ status.downloading_rom.multi

\* a path that stays inside the directory it is relative to
Inside(path) == path # << >> /\ path[1] # <<".", ".">>

\* C34: whatever the names of the archive's entries, every file that exists
\* was written inside the title's destination directory.
C34_ExtractionStaysInside ==
    \A p \in DOMAIN fs : fs[p] >= 0 => Inside(p)

\* the titles of the queue ahead of the one at which the drain failed
Earlier == 1..loc.i

\* C35: when the download of the k-th title of the queue ends in HTTP 403 or
\* a host error, the titles requested are the first k of the queue at most
\* (the k-th itself only if its request could be sent), no exception is
\* raised, the queue is empty when download_rom has returned, and every
\* title ahead of the k-th still has its file (a multi-file title the files
\* of its entries, with their full content).
C35_StopAll ==
    (op = "download_rom" /\ hist.outcome \in {"http403"} \cup HostErrors) =>
        /\ pc \in ResetPcs \cup {"returned"}
        /\ Len(hist.started) =
              loc.i + (IF hist.outcome \in {"http403", "url_error"} THEN 1 ELSE 0)
        /\ \A j \in 1..Len(hist.started) : hist.started[j] = loc.q[j].name
        /\ hist.fin = loc.i
        /\ (pc = "returned" => status.download_queue = << >>)
        /\ \A j \in Earlier :
              IF loc.q[j].multi
              THEN \A k \in 1..Len(loc.zip) :
                     fs[EntryPath(loc.q[j], loc.zip[k])] =
                         LastAt(loc.q[j], loc.zip, 1..Len(loc.zip), k).file_size
              ELSE fs[DestPath(loc.q[j])] >= 0

C35_Witness ==
    /\ op = "download_rom" /\ pc = "returned"
    /\ hist.outcome = "http403"
    /\ loc.i = 1 /\ Len(loc.q) = 2 /\ Len(loc.zip) = 2
    /\ status.download_queue = << >>

\* C36: an icon is fetched only for an included platform whose icon is not
\* cached, and when the main request of fetch_platforms succeeded and the call
\* has returned, valid_host and valid_credentials are true and status.platforms
\* holds every included platform, whatever the icon fetches answered.
C36_IconOutcomeDoesNotSurvive ==
    op = "fetch_platforms" =>
        /\ (pc = "ic167" =>
              /\ PlatformIncluded(loc.items[loc.k + 1])
              /\ loc.items[loc.k + 1].slug \notin icons)
        /\ (pc = "returned" /\ hist.outcome = "ok" =>
              /\ status.valid_host /\ status.valid_credentials
              /\ status.platforms = SelectSeq(loc.items, PlatformIncluded)
              /\ status.platforms_ready)

C36_Witness ==
    /\ op = "fetch_platforms" /\ pc = "returned" /\ hist.outcome = "ok"
    /\ hist.iconFailed
    /\ Len(status.platforms) >= 2
    /\ \E k \in 1..Len(status.platforms) : status.platforms[k].slug \in icons

====
